---- MODULE Spec2Model ----
(***************************************************************************)
(* A model of training/utils.py: the EarlyStopping monitor and its         *)
(* checkpoint directory, the epoch loop of train_model, get_splits,        *)
(* compute_running_accuracy and compute_accuracy.                          *)
(*                                                                         *)
(* Numbers.  A validation loss, a score and delta are integers counting    *)
(* 1/LossScale of 1e-6, so that a loss can lie between two numerals of     *)
(* the "%.6f" format.  Accuracies are exact fractions <<num, den>>.        *)
(***************************************************************************)
EXTENDS Integers, Sequences, FiniteSets, TLC

VARIABLES
    \* EarlyStopping (self.*), the directory self.dir_path, the call in flight
    patience, delta, counter, best_score, early_stop, val_loss_min,
    files, mpc, val_loss,
    \* history of the monitor: the losses fed, the losses persisted
    lossLog, saved,
    \* train_model: the epoch loop
    pc, epoch, n_epochs, n_train_batches, n_val_batches,
    passes, lr_steps, monitor_calls,
    \* get_splits
    n_instances, train_split_percentage, val_split_percentage, splits,
    \* train_epoch: the running accuracy over the batches
    batch_idx, train_acc, acc_log,
    \* compute_accuracy
    graph_logits, batch_size, acc

esVars    == <<patience, delta, counter, best_score, early_stop, val_loss_min,
               files, mpc, val_loss>>
histVars  == <<lossLog, saved>>
trainVars == <<pc, epoch, n_epochs, n_train_batches, n_val_batches,
               passes, lr_steps, monitor_calls>>
splitVars == <<n_instances, train_split_percentage, val_split_percentage, splits>>
epochVars == <<batch_idx, train_acc, acc_log>>
scoreVars == <<graph_logits, batch_size, acc>>
vars      == <<esVars, histVars, trainVars, splitVars, epochVars, scoreVars>>

---------------------------------------------------------------------------
\* Bounds of the model.
MaxPatience  == 3
MaxDelta     == 2
MaxLoss      == 3
LossScale    == 3
MaxCalls     == 5
MaxEpochs    == 4
MaxLoaderLen == 1
MaxInstances == 10
MaxBatches   == 4
MaxBatchSize == 2
MaxLogit     == 2

\* Program constants.
Micro   == 1000000
Hundred == 100

---------------------------------------------------------------------------
\* Optional values: None is Python's None, Some(x) a value.
None    == <<>>
Some(x) == <<x>>

\* np.Inf, the initial val_loss_min.
Inf == <<>>

\* The loss 1.0 and the validation losses fed to the monitor: 1.0 + k/LossScale * 1e-6.
OneLoss == LossScale * Micro
Losses  == {OneLoss + k : k \in 0..MaxLoss}
Deltas  == 0..MaxDelta

Last(s) == s[Len(s)]

---------------------------------------------------------------------------
\* EarlyStopping

\* f"{val_loss:.6f}": the numeral with six decimals nearest to the loss, as its
\* count of 1e-6 (a tie goes to the even numeral).
Format6Floor(l) == l \div LossScale

Format6(l) ==
    LET q == l \div LossScale
        r == l % LossScale
    IN  IF 2 * r < LossScale THEN q
        ELSE IF 2 * r > LossScale THEN q + 1
        ELSE IF q % 2 = 0 THEN q ELSE q + 1

\* The loss a six-decimal numeral denotes.
Parse6(m) == m * LossScale

\* p = os.path.splitext(self.path); p[1] is ".pt" for the path train_model builds.
Ext == ".pt"

\* A file of the directory: <<stem, the loss in its name, extension>>.
ModelPath(l)              == <<"base-state-dict-val_loss=", Some(Format6(l)), Ext>>
ConstructorParametersPath == <<"base-parameters", None, Ext>>
OptimizerPath             == <<"optimizer-state-dict", None, Ext>>

\* What the experiment directory may hold besides this monitor's files.
TrainLog     == <<"trainlog", None, ".txt">>
ForeignPt    == <<"other", None, Ext>>
StaleModel   == <<"base-state-dict-val_loss=", Some(Format6(OneLoss) + 7), Ext>>
InitialDirs  == {{TrainLog}, {TrainLog, ForeignPt, StaleModel}}

\* filename.endswith(p[1])
EndsWithExt(f) == f[3] = Ext

\* the files the loop of save_checkpoint removes
OwnModelsOnly(fs) == {f \in fs : EndsWithExt(f) /\ f[2] # None}

StaleCheckpoints(fs) == {f \in fs : EndsWithExt(f)}

\* elif score < self.best_score + self.delta
NotImprovedLoose(score, best, d) == score <= best + d

NotImproved(score, best, d) == score < best + d

\* if self.counter >= self.patience: self.early_stop = True
EarlyStopFollowsCounter(stop, c, p) == c >= p

NextEarlyStop(stop, c, p) == IF c >= p THEN TRUE ELSE stop

EsInit ==
    /\ patience \in 1..MaxPatience
    /\ delta \in Deltas
    /\ counter = 0
    /\ best_score = None
    /\ early_stop = FALSE
    /\ val_loss_min = Inf
    /\ files \in InitialDirs
    /\ mpc = "idle"
    /\ val_loss = None

\* save_checkpoint up to the end of its removal loop
SaveCheckpointRemove(l) ==
    /\ files' = files \ StaleCheckpoints(files)
    /\ val_loss' = Some(l)
    /\ mpc' = "saving"

\* __call__ up to the point where save_checkpoint has removed the old files,
\* or to its end in the branch that does not save
Call(l) ==
    LET score == -l IN
    /\ mpc = "idle"
    /\ IF best_score = None
       THEN /\ best_score' = Some(score)
            /\ SaveCheckpointRemove(l)
            /\ UNCHANGED <<counter, early_stop>>
       ELSE IF NotImproved(score, best_score[1], delta)
       THEN /\ counter' = counter + 1
            /\ early_stop' = NextEarlyStop(early_stop, counter + 1, patience)
            /\ UNCHANGED <<best_score, files, val_loss, mpc>>
       ELSE /\ best_score' = Some(score)
            /\ SaveCheckpointRemove(l)
            /\ UNCHANGED <<counter, early_stop>>
    /\ UNCHANGED <<patience, delta, val_loss_min>>

\* the rest of save_checkpoint (the three torch.save, val_loss_min) and of
\* __call__ (counter = 0 in the improvement branch; the counter is 0 already when
\* the baseline is recorded)
SaveCheckpointWrite ==
    /\ mpc = "saving"
    /\ files' = files \cup {ModelPath(val_loss[1]), ConstructorParametersPath,
                            OptimizerPath}
    /\ val_loss_min' = val_loss
    /\ counter' = 0
    /\ mpc' = "idle"
    /\ val_loss' = None
    /\ UNCHANGED <<patience, delta, best_score, early_stop>>

---------------------------------------------------------------------------
\* The monitor alone: any sequence of at most MaxCalls calls.

IdleTrain ==
    /\ pc = "off" /\ epoch = 0 /\ n_epochs = 0
    /\ n_train_batches = 0 /\ n_val_batches = 0
    /\ passes = <<>> /\ lr_steps = 0 /\ monitor_calls = 0

IdleSplits ==
    /\ n_instances = 0 /\ train_split_percentage = 0
    /\ val_split_percentage = 0 /\ splits = None

IdleEpoch == batch_idx = 0 /\ train_acc = <<0, 1>> /\ acc_log = <<>>

IdleScore == graph_logits = <<>> /\ batch_size = 0 /\ acc = None

IdleMonitor ==
    /\ patience = 1 /\ delta = 0 /\ counter = 0 /\ best_score = None
    /\ early_stop = FALSE /\ val_loss_min = Inf /\ files = {} /\ mpc = "idle"
    /\ val_loss = None /\ lossLog = <<>> /\ saved = <<>>

MonitorInit ==
    /\ EsInit
    /\ lossLog = <<>> /\ saved = <<>>
    /\ IdleTrain /\ IdleSplits /\ IdleEpoch /\ IdleScore

MonitorCall ==
    /\ Len(lossLog) < MaxCalls
    /\ \E l \in Losses :
          /\ Call(l)
          /\ lossLog' = Append(lossLog, l)
    /\ UNCHANGED <<saved, trainVars, splitVars, epochVars, scoreVars>>

MonitorSave ==
    /\ SaveCheckpointWrite
    /\ saved' = Append(saved, val_loss[1])
    /\ UNCHANGED <<lossLog, trainVars, splitVars, epochVars, scoreVars>>

MonitorNext == MonitorCall \/ MonitorSave

SpecMonitor == MonitorInit /\ [][MonitorNext]_vars

---------------------------------------------------------------------------
\* train_model: the epoch loop, lines 290-333.  pc is the position in the loop;
\* passes lists what the current epoch has run so far.

\* if early_stopping_monitor.early_stop: break
BreakNever == FALSE

Break == early_stop

TrainInit ==
    /\ EsInit
    /\ lossLog = <<>> /\ saved = <<>>
    /\ pc = "for" /\ epoch = 0
    /\ n_epochs \in 0..MaxEpochs
    /\ n_train_batches \in 0..MaxLoaderLen
    /\ n_val_batches \in 0..MaxLoaderLen
    /\ passes = <<>> /\ lr_steps = 0 /\ monitor_calls = 0
    /\ IdleSplits /\ IdleEpoch /\ IdleScore

\* for epoch in range(args["n_epochs"])
ForEpoch ==
    /\ pc = "for"
    /\ IF epoch < n_epochs
       THEN pc' = "train" /\ passes' = <<>>
       ELSE pc' = "done" /\ UNCHANGED passes
    /\ UNCHANGED <<epoch, n_epochs, n_train_batches, n_val_batches, lr_steps,
                   monitor_calls, esVars, histVars, splitVars, epochVars, scoreVars>>

\* train_epoch(...): cum_loss / num_batches raises ZeroDivisionError on an empty loader
TrainPass ==
    /\ pc = "train"
    /\ IF n_train_batches = 0
       THEN pc' = "crashed" /\ UNCHANGED passes
       ELSE pc' = "validate" /\ passes' = Append(passes, "train")
    /\ UNCHANGED <<epoch, n_epochs, n_train_batches, n_val_batches, lr_steps,
                   monitor_calls, esVars, histVars, splitVars, epochVars, scoreVars>>

\* the validation loop; val_loss / len(val_dataloader) raises ZeroDivisionError on
\* an empty loader
ValidationPass ==
    /\ pc = "validate"
    /\ IF n_val_batches = 0
       THEN pc' = "crashed" /\ UNCHANGED passes
       ELSE pc' = "monitor" /\ passes' = Append(passes, "validate")
    /\ UNCHANGED <<epoch, n_epochs, n_train_batches, n_val_batches, lr_steps,
                   monitor_calls, esVars, histVars, splitVars, epochVars, scoreVars>>

\* early_stopping_monitor(model=model, val_loss=val_loss, optimizer=optimizer)
TrainMonitorCall ==
    /\ pc = "monitor"
    /\ \E l \in Losses : Call(l)
    /\ pc' = IF mpc' = "saving" THEN "monitor_save" ELSE "check"
    /\ passes' = Append(passes, "monitor")
    /\ monitor_calls' = monitor_calls + 1
    /\ UNCHANGED <<epoch, n_epochs, n_train_batches, n_val_batches, lr_steps,
                   histVars, splitVars, epochVars, scoreVars>>

TrainMonitorSave ==
    /\ pc = "monitor_save"
    /\ SaveCheckpointWrite
    /\ pc' = "check"
    /\ UNCHANGED <<epoch, n_epochs, n_train_batches, n_val_batches, passes, lr_steps,
                   monitor_calls, histVars, splitVars, epochVars, scoreVars>>

\* if early_stopping_monitor.early_stop: ... break
CheckStop ==
    /\ pc = "check"
    /\ pc' = IF Break THEN "done" ELSE "step"
    /\ UNCHANGED <<epoch, n_epochs, n_train_batches, n_val_batches, passes, lr_steps,
                   monitor_calls, esVars, histVars, splitVars, epochVars, scoreVars>>

\* torch.cuda.empty_cache(); lr_scheduler.step(); then the next iteration
SchedulerStep ==
    /\ pc = "step"
    /\ lr_steps' = lr_steps + 1
    /\ passes' = Append(passes, "step")
    /\ epoch' = epoch + 1
    /\ pc' = "for"
    /\ UNCHANGED <<n_epochs, n_train_batches, n_val_batches, monitor_calls,
                   esVars, histVars, splitVars, epochVars, scoreVars>>

TrainNext ==
    \/ ForEpoch
    \/ TrainPass
    \/ ValidationPass
    \/ TrainMonitorCall
    \/ TrainMonitorSave
    \/ CheckStop
    \/ SchedulerStep

\* The loop is one sequential thread: a step that can be taken is taken.
SpecTrain == TrainInit /\ [][TrainNext]_vars /\ WF_vars(TrainNext)

---------------------------------------------------------------------------
\* get_splits

\* int(x / 100) of a non-negative x
IntOf(num, den) == num \div den

get_splitsNoFold(n, t, v) ==
    IF t = 0 /\ v = 0 THEN <<0, 0, n>>
    ELSE LET train_split == IntOf(n * t, Hundred)
             val_split   == IntOf(n * v, Hundred)
         IN  <<train_split, val_split, (n - train_split) - val_split>>

get_splitsFoldIntoVal(n, t, v) ==
    IF t = 0 /\ v = 0 THEN <<0, 0, n>>
    ELSE LET train_split == IntOf(n * t, Hundred)
             val_split   == IntOf(n * v, Hundred)
             test_split  == (n - train_split) - val_split
         IN  IF t + v >= Hundred
             THEN <<train_split, val_split + test_split, 0>>
             ELSE <<train_split, val_split, test_split>>

get_splits(n, t, v) ==
    IF t = 0 /\ v = 0 THEN <<0, 0, n>>
    ELSE LET train_split     == IntOf(n * t, Hundred)
             remaining_split == n - train_split
             val_split       == IntOf(n * v, Hundred)
             test_split      == remaining_split - val_split
         IN  IF t + v >= Hundred
             THEN <<train_split + test_split, val_split, 0>>
             ELSE <<train_split, val_split, test_split>>

SplitsInit ==
    /\ n_instances \in 0..MaxInstances
    /\ train_split_percentage \in 0..Hundred
    /\ val_split_percentage \in 0..Hundred
    /\ splits = None
    /\ IdleMonitor /\ IdleTrain /\ IdleEpoch /\ IdleScore

GetSplits ==
    /\ splits = None
    /\ splits' = Some(get_splits(n_instances, train_split_percentage,
                                 val_split_percentage))
    /\ UNCHANGED <<n_instances, train_split_percentage, val_split_percentage,
                   esVars, histVars, trainVars, epochVars, scoreVars>>

SpecSplits == SplitsInit /\ [][GetSplits]_vars

---------------------------------------------------------------------------
\* Fractions <<num, den>>, den > 0, in lowest terms.

RECURSIVE GCD(_, _)
GCD(a, b) == IF b = 0 THEN a ELSE GCD(b, a % b)

Abs(x) == IF x < 0 THEN -x ELSE x

Frac(n, d) == LET g == GCD(Abs(n), d) IN <<n \div g, d \div g>>

FracAdd(a, b) == Frac(a[1] * b[2] + b[1] * a[2], a[2] * b[2])
FracSub(a, b) == Frac(a[1] * b[2] - b[1] * a[2], a[2] * b[2])
FracMul(a, b) == Frac(a[1] * b[1], a[2] * b[2])

---------------------------------------------------------------------------
\* compute_running_accuracy, over the batches of train_epoch

\* prev_acc + 1 / (step) * (curr_acc - prev_acc)
compute_running_accuracyOffByOne(curr_acc, prev_acc, step) ==
    FracAdd(prev_acc, FracMul(<<1, step + 1>>, FracSub(curr_acc, prev_acc)))

compute_running_accuracy(curr_acc, prev_acc, step) ==
    FracAdd(prev_acc, FracMul(<<1, step>>, FracSub(curr_acc, prev_acc)))

\* the values compute_accuracy returns for batches of at most MaxBatchSize graphs
AccValues == UNION {{Frac(c, 2 * b) : c \in 0..(2 * b)} : b \in 1..MaxBatchSize}

EpochInit ==
    /\ batch_idx = 0
    /\ train_acc = <<0, 1>>
    /\ acc_log = <<>>
    /\ IdleMonitor /\ IdleTrain /\ IdleSplits /\ IdleScore

\* one iteration of the batch loop, lines 351-362; batch_idx counts the batches done
TrainBatch ==
    /\ batch_idx < MaxBatches
    /\ \E a \in AccValues :
          /\ train_acc' = compute_running_accuracy(a, train_acc, batch_idx + 1)
          /\ acc_log' = Append(acc_log, a)
    /\ batch_idx' = batch_idx + 1
    /\ UNCHANGED <<esVars, histVars, trainVars, splitVars, scoreVars>>

SpecEpoch == EpochInit /\ [][TrainBatch]_vars

---------------------------------------------------------------------------
\* compute_accuracy

\* torch.argmax along one dimension: the first index of a maximal value
ArgMaxLast(row) ==
    CHOOSE i \in 1..Len(row) :
        /\ \A j \in 1..Len(row) : row[j] <= row[i]
        /\ \A j \in (i + 1)..Len(row) : row[j] < row[i]

ArgMax(row) ==
    CHOOSE i \in 1..Len(row) :
        /\ \A j \in 1..Len(row) : row[j] <= row[i]
        /\ \A j \in 1..(i - 1) : row[j] < row[i]

Column(m, j) == [i \in 1..Len(m) |-> m[i][j]]

compute_accuracy(m, bs) ==
    LET ground_truth == 1..Len(m)
        acc_g == Cardinality({i \in ground_truth : ArgMax(m[i]) = i})
        acc_d == Cardinality({j \in ground_truth : ArgMax(Column(m, j)) = j})
    IN  Frac(acc_g + acc_d, 2 * bs)

ScoreInit ==
    /\ batch_size \in 1..MaxBatchSize
    /\ graph_logits \in [1..batch_size -> [1..batch_size -> 0..MaxLogit]]
    /\ acc = None
    /\ IdleMonitor /\ IdleTrain /\ IdleSplits /\ IdleEpoch

ComputeAccuracy ==
    /\ acc = None
    /\ acc' = Some(compute_accuracy(graph_logits, batch_size))
    /\ UNCHANGED <<graph_logits, batch_size, esVars, histVars, trainVars,
                   splitVars, epochVars>>

SpecScore == ScoreInit /\ [][ComputeAccuracy]_vars

---------------------------------------------------------------------------
\* Properties of the monitor.

\* each loss is lower than the one before it
StrictlyDecreasing(log) == \A i \in 2..Len(log) : log[i] < log[i - 1]

\* each loss is lower than the one before it, by delta or more
DecreasingByDelta(log) ==
    \A i \in 2..Len(log) : log[i] < log[i - 1] /\ log[i - 1] - log[i] >= delta

\* the files of the directory that carry the checkpoint extension
CheckpointFiles == {f \in files : f[3] = Ext}

\* the model files of the directory (the ones with a loss in their name)
ModelFiles == {f \in files : f[1] = "base-state-dict-val_loss=" /\ f[3] = Ext}

\* C1: with patience = 3, delta = 0 and the losses 1.0, 1.0, 1.0, 1.0, early_stop is
\* false after each of the first three calls and true after the fourth.
C1_StopOnFourthEqualLoss ==
    ( /\ mpc = "idle"
      /\ patience = 3 /\ delta = 0
      /\ Len(lossLog) \in 1..4
      /\ \A i \in 1..Len(lossLog) : lossLog[i] = OneLoss )
    => (early_stop <=> Len(lossLog) = 4)

\* C2 as stated: after every call of a strictly decreasing sequence of losses,
\* early_stop is false and counter is 0, for every patience >= 1 and delta >= 0.
C2_DecreasingNeverStops ==
    (mpc = "idle" /\ StrictlyDecreasing(lossLog))
    => (~early_stop /\ counter = 0)

\* C2 as amended: after every call of a sequence of losses in which each loss is
\* lower than the one before it by delta or more, early_stop is false and counter
\* is 0.
C2_DecreasingByDeltaNeverStops ==
    (mpc = "idle" /\ DecreasingByDelta(lossLog))
    => (~early_stop /\ counter = 0)

C2_Witness ==
    /\ mpc = "idle" /\ delta >= 1 /\ Len(lossLog) >= 3
    /\ DecreasingByDelta(lossLog)
    /\ \E i \in 2..Len(lossLog) : lossLog[i - 1] - lossLog[i] = delta

\* C5: while save_checkpoint writes, no file with the checkpoint extension is left
\* in the directory; and after a call, once two or more calls have persisted, the
\* files with that extension are exactly the model file named with the loss of the
\* latest persist, the constructor parameters and the optimizer state.
C5_OnlyLatestCheckpointKept ==
    /\ mpc = "saving" => CheckpointFiles = {}
    /\ (mpc = "idle" /\ Len(saved) >= 2) =>
          CheckpointFiles = {ModelPath(Last(saved)), ConstructorParametersPath,
                             OptimizerPath}

C5_Witness ==
    /\ mpc = "idle" /\ Len(saved) >= 2
    /\ ModelPath(saved[Len(saved) - 1]) # ModelPath(Last(saved))
    /\ TrainLog \in files

\* C9: early_stop false implies counter < patience, and no step takes early_stop
\* from true back to false.
C9_StoppedIsTerminal ==
    /\ [](~early_stop => counter < patience)
    /\ [][early_stop => early_stop']_vars

\* a call after the stop has improved: it persisted and reset the counter
C9_Witness ==
    /\ mpc = "idle" /\ early_stop /\ counter = 0
    /\ Len(saved) >= 2 /\ Last(saved) = Last(lossLog)

\* a step that begins a call of the monitor, and the loss it is given
IsCall    == lossLog' # lossLog
CallLoss  == Last(lossLog')

\* C10 as stated (its part about the state after a call): val_loss_min equals
\* -best_score and equals the validation loss in the name of the model file on disk.
C10_MinEqualsEmbeddedLoss ==
    (mpc = "idle" /\ Len(lossLog) >= 1) =>
        /\ val_loss_min = Some(-best_score[1])
        /\ \E f \in ModelFiles : Parse6(f[2][1]) = val_loss_min[1]

\* C10 as amended: a call persists exactly when it records the baseline or has
\* score >= best_score + delta, and a call that increments the counter touches
\* neither the directory nor val_loss_min; after every call val_loss_min equals
\* -best_score, and the one model file on disk carries the six-decimal numeral
\* nearest to val_loss_min (within half of 1e-6 of it); best_score never decreases.
C10_BestCheckpointConsistent ==
    /\ []((mpc = "idle" /\ Len(lossLog) >= 1) =>
            /\ val_loss_min = Some(-best_score[1])
            /\ Cardinality(ModelFiles) = 1
            /\ \A f \in ModelFiles :
                  LET d == Parse6(f[2][1]) - val_loss_min[1]
                  IN  2 * d <= LossScale /\ -2 * d <= LossScale)
    /\ [][IsCall =>
            /\ (mpc' = "saving") <=>
                  (best_score = None \/ -CallLoss >= best_score[1] + delta)
            /\ (counter' = counter + 1) <=> (mpc' = "idle")
            /\ (mpc' = "idle") => (files' = files /\ val_loss_min' = val_loss_min)]_vars
    /\ [][(mpc = "saving") =>
            /\ {ModelPath(val_loss[1]), ConstructorParametersPath, OptimizerPath}
                  \subseteq files'
            /\ val_loss_min' = val_loss]_vars
    /\ [][best_score # None =>
            best_score' # None /\ best_score'[1] >= best_score[1]]_vars

C10_Witness ==
    /\ mpc = "idle" /\ Len(saved) >= 2 /\ counter >= 1
    /\ Parse6(Format6(val_loss_min[1])) # val_loss_min[1]

---------------------------------------------------------------------------
\* Properties of the epoch loop.

PassOrder == <<"train", "validate", "monitor", "step">>

IsPrefix(s, t) == Len(s) <= Len(t) /\ \A i \in 1..Len(s) : s[i] = t[i]

\* the passes of the current epoch come in the order train, validate, monitor,
\* step, each at most once; epochs 0..epoch-1 have each called the monitor once and
\* stepped the scheduler once; no step or training pass follows a stop
LoopOrder ==
    /\ IsPrefix(passes, PassOrder)
    /\ epoch <= n_epochs
    /\ pc \in {"train", "validate", "monitor", "monitor_save", "check", "step"}
          => epoch < n_epochs
    /\ pc = "for" => (lr_steps = epoch /\ monitor_calls = epoch /\ ~early_stop)
    /\ pc \in {"train", "validate", "monitor"} =>
          /\ lr_steps = epoch /\ monitor_calls = epoch /\ ~early_stop
          /\ pc = "train" => passes = <<>>
          /\ pc = "validate" => passes = <<"train">>
          /\ pc = "monitor" => passes = <<"train", "validate">>
    /\ pc \in {"monitor_save", "check", "step"} =>
          /\ passes = <<"train", "validate", "monitor">>
          /\ lr_steps = epoch /\ monitor_calls = epoch + 1
    /\ early_stop => pc \in {"check", "done"}
    /\ pc = "done" =>
          \/ /\ early_stop /\ epoch < n_epochs
             /\ passes = <<"train", "validate", "monitor">>
             /\ lr_steps = epoch /\ monitor_calls = epoch + 1
          \/ /\ ~early_stop /\ epoch = n_epochs
             /\ lr_steps = n_epochs /\ monitor_calls = n_epochs

\* C8: in every epoch the training pass precedes the validation pass, the monitor
\* is called once after validation, and the scheduler is stepped once after the
\* monitor unless the monitor stopped; a stop ends the loop with no scheduler step
\* in that epoch and no later epoch; and the loop ends, after n_epochs epochs at most.
C8_LoopOrderAndTermination ==
    /\ []LoopOrder
    /\ <>(pc \in {"done", "crashed"})

\* the monitor stopped the loop after a full epoch and before the last one
C8_Witness ==
    /\ pc = "done" /\ early_stop
    /\ epoch >= 1 /\ epoch + 1 < n_epochs
    /\ lr_steps = epoch /\ monitor_calls = epoch + 1

---------------------------------------------------------------------------
\* Properties of get_splits.

\* k = floor(n * pct / 100)
IsFloorPct(k, n, pct) == k * Hundred <= n * pct /\ n * pct < (k + 1) * Hundred

\* C3: the three counts sum to n_instances and none is negative; with both
\* percentages 0 the result is (0, 0, n_instances).
C3_SplitsSumToN ==
    splits # None =>
        LET r == splits[1] IN
        /\ r[1] + r[2] + r[3] = n_instances
        /\ r[1] >= 0 /\ r[2] >= 0 /\ r[3] >= 0
        /\ (train_split_percentage = 0 /\ val_split_percentage = 0)
              => r = <<0, 0, n_instances>>

\* the two floors together exceed n_instances: the remainder is negative
C3_Witness ==
    /\ splits # None
    /\ \E a, b \in 0..n_instances :
          /\ IsFloorPct(a, n_instances, train_split_percentage)
          /\ IsFloorPct(b, n_instances, val_split_percentage)
          /\ a + b > n_instances

\* C4: when the percentages sum to 100 or more, test is 0, val is
\* floor(n * val_pct / 100) and train is n - val, which is below
\* floor(n * train_pct / 100) when the remainder is negative.
C4_NoTestSplitFoldsIntoTrain ==
    (splits # None /\ train_split_percentage + val_split_percentage >= Hundred) =>
        LET r == splits[1] IN
        /\ r[3] = 0
        /\ IsFloorPct(r[2], n_instances, val_split_percentage)
        /\ r[1] = n_instances - r[2]
        /\ \A a \in 0..n_instances :
              (IsFloorPct(a, n_instances, train_split_percentage)
                 /\ n_instances - a - r[2] < 0) => r[1] < a

\* the percentages sum to 100 and rounding leaves a remainder, folded into train
C4_Witness ==
    /\ splits # None
    /\ train_split_percentage + val_split_percentage = Hundred
    /\ \E a \in 0..n_instances :
          /\ IsFloorPct(a, n_instances, train_split_percentage)
          /\ splits[1][1] > a

---------------------------------------------------------------------------
\* Properties of the running accuracy.

RECURSIVE FracSum(_)
FracSum(log) ==
    IF log = <<>> THEN <<0, 1>>
    ELSE FracAdd(FracSum(SubSeq(log, 1, Len(log) - 1)), Last(log))

\* C6: after K >= 1 batches the running accuracy is the sum of the K batch
\* accuracies divided by K.
C6_RunningAccuracyIsMean ==
    batch_idx >= 1 =>
        /\ Len(acc_log) = batch_idx
        /\ train_acc[1] * batch_idx * FracSum(acc_log)[2]
              = FracSum(acc_log)[1] * train_acc[2]

\* three batches of three different accuracies
C6_Witness ==
    /\ batch_idx = 3
    /\ Cardinality({acc_log[i] : i \in 1..3}) = 3
    /\ train_acc # acc_log[3]

---------------------------------------------------------------------------
\* Properties of compute_accuracy.

\* the diagonal entry of row i is maximal in the row and no earlier entry equals it
RowCorrect(m, i) ==
    /\ \A j \in 1..Len(m) : m[i][j] <= m[i][i]
    /\ \A j \in 1..(i - 1) : m[i][j] < m[i][i]

\* the diagonal entry of column j is maximal in the column and no earlier entry
\* equals it
ColCorrect(m, j) ==
    /\ \A i \in 1..Len(m) : m[i][j] <= m[j][j]
    /\ \A i \in 1..(j - 1) : m[i][j] < m[j][j]

ScaledIdentity(m) ==
    \E k \in 1..MaxLogit :
        \A i, j \in 1..Len(m) : m[i][j] = IF i = j THEN k ELSE 0

AllWrong(m) == \A i \in 1..Len(m) : ~RowCorrect(m, i) /\ ~ColCorrect(m, i)

\* C7: the result is (correct rows + correct columns) / 2 / B, where a row or
\* column is correct when its first maximal index is its own; it is 1 for a
\* positively scaled identity and 0 when every row and column is wrong.
C7_AccuracyCountsFirstArgmax ==
    acc # None =>
        LET m == graph_logits
            n == Cardinality({i \in 1..Len(m) : RowCorrect(m, i)})
                 + Cardinality({j \in 1..Len(m) : ColCorrect(m, j)})
        IN  /\ acc[1][1] * 2 * batch_size = n * acc[1][2]
            /\ ScaledIdentity(m) => acc[1] = <<1, 1>>
            /\ AllWrong(m) => acc[1] = <<0, 1>>

\* a batch of two or more in which every row and column is wrong, with a tie
C7_Witness ==
    /\ acc # None /\ batch_size >= 2
    /\ AllWrong(graph_logits)
    /\ \E i \in 1..batch_size : graph_logits[i][1] = graph_logits[i][2]
    /\ acc[1] = <<0, 1>>

====
